---- MODULE Spec2Model ----
(***************************************************************************)
(* Model of the expense tracker backend (backend/server.py): the session  *)
(* check, transaction creation, the cash-flow summary and the insight      *)
(* generator with its rule-based fallback.                                 *)
(*                                                                         *)
(* Amounts are Python floats in the source.  The model uses integers; the  *)
(* sums of the model's amounts are exact in binary floating point, and for *)
(* every pair (total_income, total_expenses) the model reaches the float   *)
(* expression savings / total_income * 100 compares with 0, 10 and 30 the  *)
(* same way as the exact quotient, which the model keeps as num / den.     *)
(* FloatMax stands for the largest finite float: a sum beyond it is inf,   *)
(* inf - inf and inf / inf are nan, and every comparison with nan is       *)
(* false.                                                                  *)
(* Instants are whole days of a calendar with 30-day months and 12-month   *)
(* years.                                                                  *)
(***************************************************************************)
EXTENDS Integers, Sequences, FiniteSets, TLC

VARIABLES
    users,          \* db.users: sequence of user documents
    categories,     \* db.categories: sequence of category documents
    user_sessions,  \* db.user_sessions: sequence of session documents
    transactions,   \* db.transactions: sequence of transaction documents
    now,            \* datetime.now(timezone.utc)
    inflight,       \* the generate_insights request awaiting chat.send_message
    next_id,        \* source of the uuid4-based document ids
    resp,           \* the response of the last completed request
    trace,          \* what the last completed request did: store query, LLM calls
    read_fails,     \* whether reading a cursor of db.transactions raises
    exchanges       \* the exchange_session requests awaiting their first insert

vars == <<users, categories, user_sessions, transactions, now, inflight, next_id,
          resp, trace, read_fails, exchanges>>

----------------------------------------------------------------------------
(* Bounds of the model *)

MaxSessions == 1
MaxTxns == 2
MaxTxnsTop == 6
MaxTxnsInsight == 4
NumCatsTop == 6
MaxOverCap == 2
FloatMax == 1000000

(* Program constants *)

TopN == 5
LowRate == 10
HighRate == 30
FetchCap == 1000
SessionDays == 7
ListLimit == 100
CategoryCap == 100

(* Inputs *)

Emails == {"ann@example.com"}
Tokens == {"t1"}
NoToken == "none"
RequestTokens == Tokens \cup {NoToken, "stale"}
Now0 == 360 + 30 + 10
NoDate == 0 - 1
LastYear == 100
Periods == {"month", "year", "week"}
GeneratedTexts == {"advice"}
Malformed == "malformed"

\* request bodies of POST /transactions: incomes and expenses of 7, 9 and 10
\* dated now, an expense in a second category, an income and an expense dated
\* last year, and one body whose type is neither "income" nor "expense" (the
\* handler stores any string)
CreateInputs ==
    [amount : {7, 9, 10}, category : {"Food"}, type : {"income", "expense"},
     date : {NoDate}]
    \cup [amount : {7}, category : {"Travel"}, type : {"expense"}, date : {NoDate}]
    \cup [amount : {7}, category : {"Food"}, type : {"income", "expense"},
          date : {LastYear}]
    \cup [amount : {7}, category : {"Food"}, type : {"transfer"}, date : {NoDate}]

\* category labels of the ranking and insight specifications, in the order
\* in which expenses first use them
TopLabels == <<"Food", "Travel", "Rent", "Fun", "Health", "Bills", "Books", "Gifts">>

Min(a, b) == IF a < b THEN a ELSE b

----------------------------------------------------------------------------
(* Pure helpers of the aggregation *)

\* the floats that are not finite numbers: inf and -inf lie beyond FloatMax on
\* either side, nan is set apart from every number
Inf == FloatMax + 1
NaN == 0 - (FloatMax + 2)

\* a + b on floats, for amounts that never sum below -FloatMax
Plus(a, b) == IF a = Inf \/ b = Inf \/ a + b > FloatMax THEN Inf ELSE a + b

\* a - b on floats
Minus(a, b) ==
    IF a = Inf /\ b = Inf THEN NaN
    ELSE IF a = Inf THEN Inf
    ELSE IF b = Inf THEN 0 - Inf
    ELSE a - b

\* sum(t["amount"] for t in transactions if t["type"] == kind); the two halves
\* are summed one after the other, which for the model's integers is the sum
\* from left to right and keeps the evaluation shallow for a full read
RECURSIVE SumAmounts(_, _)
SumAmounts(txs, kind) ==
    IF txs = <<>> THEN 0
    ELSE IF Len(txs) = 1
    THEN (IF txs[1].type = kind THEN txs[1].amount ELSE 0)
    ELSE LET half == Len(txs) \div 2 IN
         Plus(SumAmounts(SubSeq(txs, 1, half), kind),
              SumAmounts(SubSeq(txs, half + 1, Len(txs)), kind))

\* index of key `cat` in an insertion-ordered dict, 0 when absent
DictIndex(d, cat) ==
    IF \E i \in 1..Len(d) : d[i].name = cat
    THEN CHOOSE i \in 1..Len(d) : d[i].name = cat
    ELSE 0

\* d[cat] = d.get(cat, 0) + amount on an insertion-ordered dict
DictAdd(d, cat, amount) ==
    LET i == DictIndex(d, cat) IN
    IF i = 0 THEN Append(d, [name |-> cat, amount |-> amount])
    ELSE [d EXCEPT ![i].amount = Plus(@, amount)]

\* continuing the loop over a later stretch of the transactions: its entries
\* are added, in their order, to the dict built so far
RECURSIVE DictAddAll(_, _)
DictAddAll(d, later) ==
    IF later = <<>> THEN d
    ELSE DictAddAll(DictAdd(d, later[1].name, later[1].amount), Tail(later))

\* the loop building category_totals / category_spending, in store order: the
\* dict of the first half of the transactions, continued with the second half
RECURSIVE CategoryTotals(_)
CategoryTotals(txs) ==
    IF txs = <<>> THEN <<>>
    ELSE IF Len(txs) = 1
    THEN (IF txs[1].type = "expense"
          THEN DictAdd(<<>>, txs[1].category, txs[1].amount) ELSE <<>>)
    ELSE LET half == Len(txs) \div 2 IN
         DictAddAll(CategoryTotals(SubSeq(txs, 1, half)),
                    CategoryTotals(SubSeq(txs, half + 1, Len(txs))))

InsertDescTiesReversed(s, x) ==
    LET ahead == {i \in 1..Len(s) : s[i].amount > x.amount}
        k == IF ahead = {} THEN 0 ELSE CHOOSE i \in ahead : \A j \in ahead : j <= i
    IN SubSeq(s, 1, k) \o <<x>> \o SubSeq(s, k + 1, Len(s))

\* one step of sorted(..., key=amount, reverse=True): x goes behind every
\* element whose amount is >= its own, which keeps equal amounts in input order
InsertDesc(s, x) ==
    LET ahead == {i \in 1..Len(s) : s[i].amount >= x.amount}
        k == IF ahead = {} THEN 0 ELSE CHOOSE i \in ahead : \A j \in ahead : j <= i
    IN SubSeq(s, 1, k) \o <<x>> \o SubSeq(s, k + 1, Len(s))

RECURSIVE SortedDesc(_)
SortedDesc(items) ==
    IF items = <<>> THEN <<>>
    ELSE InsertDesc(SortedDesc(SubSeq(items, 1, Len(items) - 1)), items[Len(items)])

\* s[:n]
Take(s, n) == SubSeq(s, 1, Min(n, Len(s)))

TopCategoriesMissingCut(totals) == SortedDesc(totals)

\* sorted([...], key=lambda x: x["amount"], reverse=True)[:5]
TopCategories(totals) == Take(SortedDesc(totals), TopN)

SavingsRateElseSavings(total_income, total_expenses) ==
    IF total_income > 0
    THEN [num |-> (total_income - total_expenses) * 100, den |-> total_income]
    ELSE [num |-> (total_income - total_expenses) * 100, den |-> 1]

\* (savings / total_income * 100) if total_income > 0 else 0, as num / den;
\* nan is 0 / 0 and -inf is -1 / 0 (inf income gives inf / inf or nan / inf,
\* inf expenses with a finite income give -inf)
SavingsRate(total_income, total_expenses) ==
    IF total_income > 0
    THEN IF total_income = Inf THEN [num |-> 0, den |-> 0]
         ELSE IF total_expenses = Inf THEN [num |-> 0 - 1, den |-> 0]
         ELSE [num |-> (total_income - total_expenses) * 100, den |-> total_income]
    ELSE [num |-> 0, den |-> 1]

\* rate < k and rate > k; both are false of nan
RateBelow(rate, k) == rate.num < k * rate.den
RateAbove(rate, k) == rate.num > k * rate.den

\* f"{savings_rate:.1f}": the rate in tenths, rounded half to even; "-inf"
\* and "nan" for the rates that are no numbers
Format1(rate) ==
    IF rate.den = 0 THEN (IF rate.num = 0 THEN NaN ELSE 0 - Inf)
    ELSE LET q == (rate.num * 10) \div rate.den
             r == (rate.num * 10) % rate.den
         IN IF 2 * r > rate.den THEN q + 1
            ELSE IF 2 * r < rate.den THEN q
            ELSE IF q % 2 = 0 THEN q ELSE q + 1

\* now.replace(day=1, hour=0, minute=0, second=0, microsecond=0)
MonthStart(t) == t - (t % 30)

\* now.replace(month=1, day=1, hour=0, minute=0, second=0, microsecond=0)
YearStart(t) == t - (t % 360)

\* if period == "month": ... else:  # year
PeriodStart(period) ==
    IF period = "month" THEN MonthStart(now) ELSE YearStart(now)

\* db.transactions.find({"user_id": ..., "date": {"$gte": start_date}}).to_list(1000)
Find(user_id, start_date) ==
    Take(SelectSeq(transactions,
                   LAMBDA t : t.user_id = user_id /\ t.date >= start_date),
         FetchCap)

FindToListMasked(user_id, start_date) ==
    [raised |-> FALSE,
     docs |-> IF read_fails THEN <<>> ELSE Find(user_id, start_date)]

\* transactions = await db.transactions.find(...).to_list(1000): the documents,
\* or the exception of the driver when the store cannot be read
FindToList(user_id, start_date) ==
    IF read_fails THEN [raised |-> TRUE, docs |-> <<>>]
    ELSE [raised |-> FALSE, docs |-> Find(user_id, start_date)]

RECURSIVE MaxEntryLast(_)
MaxEntryLast(d) ==
    IF Len(d) = 1 THEN d[1]
    ELSE LET m == MaxEntryLast(SubSeq(d, 1, Len(d) - 1)) IN
         IF d[Len(d)].amount >= m.amount THEN d[Len(d)] ELSE m

\* max(category_spending.items(), key=lambda x: x[1]): the first largest entry
RECURSIVE MaxEntry(_)
MaxEntry(d) ==
    IF Len(d) = 1 THEN d[1]
    ELSE LET m == MaxEntry(SubSeq(d, 1, Len(d) - 1)) IN
         IF d[Len(d)].amount > m.amount THEN d[Len(d)] ELSE m

TopCategoryLast(category_spending) ==
    IF category_spending # <<>> THEN MaxEntryLast(category_spending)
    ELSE [name |-> "expenses", amount |-> 0]

\* max(...) if category_spending else ("expenses", 0)
TopCategory(category_spending) ==
    IF category_spending # <<>> THEN MaxEntry(category_spending)
    ELSE [name |-> "expenses", amount |-> 0]

----------------------------------------------------------------------------
(* Responses *)

Response(op, status, body) == [op |-> op, status |-> status, body |-> body]

Error(op, status, detail) == Response(op, status, [detail |-> detail])

\* TransactionUpdate with every field None or unset: an Optional is <<>> for
\* None and <<v>> for the value v
NoUpdate == [amount |-> <<>>, category |-> <<>>, type |-> <<>>, date |-> <<>>]

\* what a request did before it answered: the store read and its result, the
\* calls of the text generation and their outcome; the request's token, the
\* user it authenticated as (0: none), the transaction id of its path (0:
\* none) and its update body are filled in by By and On
Trace(op, period, queried, fetched, llm_calls) ==
    [op |-> op, period |-> period, queried |-> queried, fetched |-> fetched,
     llm_calls |-> llm_calls, llm_result |-> "none",
     token |-> NoToken, user_id |-> 0, transaction_id |-> 0, update |-> NoUpdate]

NoQuery(op, period) == Trace(op, period, FALSE, <<>>, 0)

\* the request carried `token` and get_current_user answered `user`
By(t, token, user) == [t EXCEPT !.token = token, !.user_id = user.user_id]

\* the request's path names transaction_id and its body is update
On(t, transaction_id, update) ==
    [t EXCEPT !.transaction_id = transaction_id, !.update = update]

\* an exception no handler catches: FastAPI answers 500
Unhandled(op) == Error(op, 500, "Internal Server Error")

Idle ==
    [state |-> "idle", total_income |-> 0, total_expenses |-> 0,
     category_spending |-> <<>>, fetched |-> <<>>, token |-> NoToken,
     user_id |-> 0, llm_calls |-> 0]

CashFlowSummarySwapped(fetched) ==
    LET total_income == SumAmounts(fetched, "income")
        total_expenses == SumAmounts(fetched, "expense")
    IN [total_income |-> total_income,
        total_expenses |-> total_expenses,
        savings |-> total_expenses - total_income,
        savings_rate |-> SavingsRate(total_income, total_expenses),
        top_categories |-> TopCategories(CategoryTotals(fetched))]

\* the body of get_cash_flow after the store read
CashFlowSummary(fetched) ==
    LET total_income == SumAmounts(fetched, "income")
        total_expenses == SumAmounts(fetched, "expense")
    IN [total_income |-> total_income,
        total_expenses |-> total_expenses,
        savings |-> Minus(total_income, total_expenses),
        savings_rate |-> SavingsRate(total_income, total_expenses),
        top_categories |-> TopCategories(CategoryTotals(fetched))]

FallbackInsightInclusive(total_income, total_expenses, category_spending) ==
    LET savings_rate == SavingsRate(total_income, total_expenses) IN
    IF ~RateAbove(savings_rate, LowRate)
    THEN [text |-> "low_savings", rate |-> Format1(savings_rate)]
    ELSE IF ~RateBelow(savings_rate, HighRate)
    THEN [text |-> "invest", rate |-> Format1(savings_rate)]
    ELSE LET top_category == TopCategory(category_spending) IN
         [text |-> "top_category", name |-> top_category.name,
          amount |-> top_category.amount]

\* the except branch of generate_insights
FallbackInsight(total_income, total_expenses, category_spending) ==
    LET savings_rate == SavingsRate(total_income, total_expenses) IN
    IF RateBelow(savings_rate, LowRate)
    THEN [text |-> "low_savings", rate |-> Format1(savings_rate)]
    ELSE IF RateAbove(savings_rate, HighRate)
    THEN [text |-> "invest", rate |-> Format1(savings_rate)]
    ELSE LET top_category == TopCategory(category_spending) IN
         [text |-> "top_category", name |-> top_category.name,
          amount |-> top_category.amount]

InsightResponse(insight) ==
    Response("generate_insights", 200, [insight |-> insight, generated_at |-> now])

----------------------------------------------------------------------------
(* Authentication *)

SessionIndex(token) ==
    IF \E i \in 1..Len(user_sessions) : user_sessions[i].session_token = token
    THEN CHOOSE i \in 1..Len(user_sessions) :
            /\ user_sessions[i].session_token = token
            /\ \A j \in 1..(i - 1) : user_sessions[j].session_token # token
    ELSE 0

UserByEmail(email) ==
    IF \E i \in 1..Len(users) : users[i].email = email
    THEN CHOOSE i \in 1..Len(users) :
            /\ users[i].email = email
            /\ \A j \in 1..(i - 1) : users[j].email # email
    ELSE 0

get_current_user_no_expiry(token) ==
    IF token = NoToken
    THEN [status |-> 401, detail |-> "Not authenticated", user_id |-> 0]
    ELSE IF SessionIndex(token) = 0
    THEN [status |-> 401, detail |-> "Invalid session", user_id |-> 0]
    ELSE [status |-> 200, detail |-> "",
          user_id |-> user_sessions[SessionIndex(token)].user_id]

\* get_current_user: status 200 with the user's id, or the status it raises
get_current_user(token) ==
    IF token = NoToken
    THEN [status |-> 401, detail |-> "Not authenticated", user_id |-> 0]
    ELSE LET i == SessionIndex(token) IN
         IF i = 0
         THEN [status |-> 401, detail |-> "Invalid session", user_id |-> 0]
         ELSE IF user_sessions[i].expires_at < now
         THEN [status |-> 401, detail |-> "Session expired", user_id |-> 0]
         ELSE IF ~(\E u \in 1..Len(users) :
                      users[u].user_id = user_sessions[i].user_id)
         THEN [status |-> 404, detail |-> "User not found", user_id |-> 0]
         ELSE [status |-> 200, detail |-> "", user_id |-> user_sessions[i].user_id]

----------------------------------------------------------------------------
(* Initial states *)

NoResponse == Response("none", 0, [detail |-> ""])

Init ==
    /\ users = <<>>
    /\ categories = <<>>
    /\ user_sessions = <<>>
    /\ transactions = <<>>
    /\ now = Now0
    /\ inflight = Idle
    /\ next_id = 1
    /\ resp = NoResponse
    /\ trace = NoQuery("none", "")
    /\ read_fails = FALSE
    /\ exchanges = <<>>

\* the nine documents of default_categories
DefaultCategories(user_id) ==
    LET names == <<"Food & Dining", "Transportation", "Shopping", "Entertainment",
                   "Bills & Utilities", "Healthcare", "Salary", "Business",
                   "Investments">>
    IN [i \in 1..9 |->
          [category_id |-> next_id + i, user_id |-> user_id, name |-> names[i],
           type |-> IF i <= 6 THEN "expense" ELSE "income"]]

----------------------------------------------------------------------------
(* Handlers *)

\* POST /auth/session; broker_ok is whether the OAuth broker answered 2xx
exchange_session(email, session_token, broker_ok) ==
    /\ trace' = NoQuery("exchange_session", "")
    /\ UNCHANGED <<transactions, now, inflight, read_fails, exchanges>>
    /\ IF ~broker_ok
       THEN /\ resp' = Error("exchange_session", 400, "broker error")
            /\ UNCHANGED <<users, categories, user_sessions, next_id>>
       ELSE LET existing == UserByEmail(email)
                user_id == IF existing = 0 THEN next_id ELSE users[existing].user_id
            IN /\ IF existing = 0
                  THEN /\ users' = Append(users, [user_id |-> user_id, email |-> email,
                                                  created_at |-> now])
                       /\ categories' = categories \o DefaultCategories(user_id)
                       /\ next_id' = next_id + 10
                  ELSE UNCHANGED <<users, categories, next_id>>
               /\ user_sessions' = Append(user_sessions,
                      [user_id |-> user_id, session_token |-> session_token,
                       expires_at |-> now + SessionDays, created_at |-> now])
               /\ resp' = Response("exchange_session", 200,
                      [email |-> email, session_token |-> session_token])

\* POST /auth/session up to its first insert: the broker has answered and
\* db.users.find_one({"email": ...}) has returned; existing is the position of
\* the user found, 0 for none
exchange_session_find(email, session_token) ==
    /\ exchanges' = Append(exchanges, [email |-> email, session_token |-> session_token,
                                       existing |-> UserByEmail(email)])
    /\ UNCHANGED <<users, categories, user_sessions, transactions, now, inflight,
                   next_id, resp, trace, read_fails>>

\* POST /auth/session from its first insert on, for the i-th awaiting request:
\* the user and the default categories when find_one had returned none, then
\* the session
exchange_session_insert(i) ==
    LET request == exchanges[i]
        user_id == IF request.existing = 0 THEN next_id
                   ELSE users[request.existing].user_id
    IN /\ IF request.existing = 0
          THEN /\ users' = Append(users, [user_id |-> user_id, email |-> request.email,
                                          created_at |-> now])
               /\ categories' = categories \o DefaultCategories(user_id)
               /\ next_id' = next_id + 10
          ELSE UNCHANGED <<users, categories, next_id>>
       /\ user_sessions' = Append(user_sessions,
              [user_id |-> user_id, session_token |-> request.session_token,
               expires_at |-> now + SessionDays, created_at |-> now])
       /\ resp' = Response("exchange_session", 200,
              [email |-> request.email, session_token |-> request.session_token])
       /\ trace' = NoQuery("exchange_session", "")
       /\ exchanges' = SubSeq(exchanges, 1, i - 1)
                       \o SubSeq(exchanges, i + 1, Len(exchanges))
       /\ UNCHANGED <<transactions, now, inflight, read_fails>>

\* POST /auth/logout
logout(token) ==
    /\ LET i == SessionIndex(token) IN
       user_sessions' = IF token # NoToken /\ i # 0
                        THEN SubSeq(user_sessions, 1, i - 1)
                             \o SubSeq(user_sessions, i + 1, Len(user_sessions))
                        ELSE user_sessions
    /\ resp' = Response("logout", 200, [message |-> "Logged out successfully"])
    /\ trace' = NoQuery("logout", "")
    /\ UNCHANGED <<users, categories, transactions, now, inflight, next_id,
                   read_fails, exchanges>>

\* POST /transactions
create_transaction(token, amount, category, type, date) ==
    LET user == get_current_user(token) IN
    /\ trace' = By(NoQuery("create_transaction", ""), token, user)
    /\ UNCHANGED <<users, categories, user_sessions, now, inflight,
                   read_fails, exchanges>>
    /\ IF user.status # 200
       THEN /\ resp' = Error("create_transaction", user.status, user.detail)
            /\ UNCHANGED <<transactions, next_id>>
       ELSE LET transaction_doc ==
                    [transaction_id |-> next_id, user_id |-> user.user_id,
                     amount |-> amount, category |-> category, type |-> type,
                     date |-> IF date = NoDate THEN now ELSE date,
                     created_at |-> now]
            IN /\ transactions' = Append(transactions, transaction_doc)
               /\ next_id' = next_id + 1
               /\ resp' = Response("create_transaction", 200, transaction_doc)

\* GET /auth/me
get_me(token) ==
    LET user == get_current_user(token) IN
    /\ trace' = By(NoQuery("get_me", ""), token, user)
    /\ resp' = IF user.status # 200 THEN Error("get_me", user.status, user.detail)
               ELSE Response("get_me", 200,
                             CHOOSE u \in {users[i] : i \in 1..Len(users)} :
                                 u.user_id = user.user_id)
    /\ UNCHANGED <<users, categories, user_sessions, transactions, now, inflight,
                   next_id, read_fails, exchanges>>

\* the orders .sort("date", -1) can return docs in: latest first, documents of
\* the same date in any order
SortedByDate(docs) ==
    {s \in {[i \in 1..Len(docs) |-> docs[p[i]]] : p \in Permutations(1..Len(docs))} :
        \A i \in 1..Len(s), j \in 1..Len(s) : i < j => s[i].date >= s[j].date}

\* GET /transactions; type is "" when the query parameter is absent
get_transactions(token, type) ==
    LET user == get_current_user(token)
        matching == SelectSeq(transactions,
                        LAMBDA t : t.user_id = user.user_id
                                   /\ (type # "" => t.type = type))
    IN /\ trace' = By(NoQuery("get_transactions", ""), token, user)
       /\ IF user.status # 200
          THEN resp' = Error("get_transactions", user.status, user.detail)
          ELSE IF read_fails
          THEN resp' = Unhandled("get_transactions")
          ELSE \E s \in SortedByDate(matching) :
                  resp' = Response("get_transactions", 200, Take(s, ListLimit))
       /\ UNCHANGED <<users, categories, user_sessions, transactions, now, inflight,
                      next_id, read_fails, exchanges>>

\* GET /categories; type is "" when the query parameter is absent
get_categories(token, type) ==
    LET user == get_current_user(token)
        matching == SelectSeq(categories,
                        LAMBDA c : c.user_id = user.user_id
                                   /\ (type # "" => c.type = type))
    IN /\ trace' = By(NoQuery("get_categories", ""), token, user)
       /\ resp' = IF user.status # 200
                  THEN Error("get_categories", user.status, user.detail)
                  ELSE Response("get_categories", 200, Take(matching, CategoryCap))
       /\ UNCHANGED <<users, categories, user_sessions, transactions, now, inflight,
                      next_id, read_fails, exchanges>>

\* POST /categories
create_category(token, name, type) ==
    LET user == get_current_user(token)
        category_doc == [category_id |-> next_id, user_id |-> user.user_id,
                         name |-> name, type |-> type]
    IN /\ trace' = By(NoQuery("create_category", ""), token, user)
       /\ UNCHANGED <<users, user_sessions, transactions, now, inflight,
                      read_fails, exchanges>>
       /\ IF user.status # 200
          THEN /\ resp' = Error("create_category", user.status, user.detail)
               /\ UNCHANGED <<categories, next_id>>
          ELSE /\ categories' = Append(categories, category_doc)
               /\ next_id' = next_id + 1
               /\ resp' = Response("create_category", 200, category_doc)

MatchesAnyOwner(t, transaction_id, user_id) == t.transaction_id = transaction_id

\* the filter {"transaction_id": transaction_id, "user_id": user.user_id}
Matches(t, transaction_id, user_id) ==
    t.transaction_id = transaction_id /\ t.user_id = user_id

\* the position of the first document the filter matches, 0 when there is none
FindOne(transaction_id, user_id) ==
    IF \E i \in 1..Len(transactions) : Matches(transactions[i], transaction_id, user_id)
    THEN CHOOSE i \in 1..Len(transactions) :
            /\ Matches(transactions[i], transaction_id, user_id)
            /\ \A j \in 1..(i - 1) : ~Matches(transactions[j], transaction_id, user_id)
    ELSE 0

NotFound(op) == Error(op, 404, "Transaction not found")

\* GET /transactions/{transaction_id}
get_transaction(token, transaction_id) ==
    LET user == get_current_user(token)
        i == FindOne(transaction_id, user.user_id)
    IN /\ trace' = On(By(NoQuery("get_transaction", ""), token, user),
                      transaction_id, NoUpdate)
       /\ resp' = IF user.status # 200
                  THEN Error("get_transaction", user.status, user.detail)
                  ELSE IF i = 0 THEN NotFound("get_transaction")
                  ELSE Response("get_transaction", 200, transactions[i])
       /\ UNCHANGED <<users, categories, user_sessions, transactions, now, inflight,
                      next_id, read_fails, exchanges>>

\* update_dict = {k: v for k, v in update.dict(exclude_unset=True).items()
\*                if v is not None}, as the set of its keys
UpdateDict(update) == {k \in DOMAIN update : update[k] # <<>>}

\* {"$set": update_dict} applied to one document
SetFields(doc, update) ==
    [k \in DOMAIN doc |-> IF k \in UpdateDict(update) THEN update[k][1] ELSE doc[k]]

UpdateMany(transaction_id, user_id, update) ==
    [i \in 1..Len(transactions) |->
        IF transactions[i].user_id = user_id
        THEN SetFields(transactions[i], update) ELSE transactions[i]]

\* db.transactions.update_one(filter, {"$set": update_dict}) with a match
UpdateOne(transaction_id, user_id, update) ==
    [transactions EXCEPT ![FindOne(transaction_id, user_id)] = SetFields(@, update)]

\* db.transactions.find_one({"transaction_id": transaction_id}) in txs
ReadBack(txs, transaction_id) ==
    txs[CHOOSE i \in 1..Len(txs) :
            /\ txs[i].transaction_id = transaction_id
            /\ \A j \in 1..(i - 1) : txs[j].transaction_id # transaction_id]

\* PUT /transactions/{transaction_id}
update_transaction(token, transaction_id, update) ==
    LET user == get_current_user(token) IN
    /\ trace' = On(By(NoQuery("update_transaction", ""), token, user),
                   transaction_id, update)
    /\ UNCHANGED <<users, categories, user_sessions, now, inflight, next_id,
                   read_fails, exchanges>>
    /\ IF user.status # 200
       THEN /\ resp' = Error("update_transaction", user.status, user.detail)
            /\ UNCHANGED transactions
       ELSE IF UpdateDict(update) = {}
       THEN /\ resp' = Error("update_transaction", 400, "No fields to update")
            /\ UNCHANGED transactions
       ELSE IF FindOne(transaction_id, user.user_id) = 0
       THEN /\ resp' = NotFound("update_transaction")
            /\ UNCHANGED transactions
       ELSE /\ transactions' = UpdateOne(transaction_id, user.user_id, update)
            /\ resp' = Response("update_transaction", 200,
                                ReadBack(transactions', transaction_id))

delete_transaction_keeping(token, transaction_id) ==
    LET user == get_current_user(token)
        i == FindOne(transaction_id, user.user_id)
    IN /\ trace' = On(By(NoQuery("delete_transaction", ""), token, user),
                      transaction_id, NoUpdate)
       /\ resp' = IF user.status # 200
                  THEN Error("delete_transaction", user.status, user.detail)
                  ELSE IF i = 0 THEN NotFound("delete_transaction")
                  ELSE Response("delete_transaction", 200,
                                [message |-> "Transaction deleted successfully"])
       /\ UNCHANGED <<users, categories, user_sessions, transactions, now, inflight,
                      next_id, read_fails, exchanges>>

\* DELETE /transactions/{transaction_id}
delete_transaction(token, transaction_id) ==
    LET user == get_current_user(token)
        i == FindOne(transaction_id, user.user_id)
    IN /\ trace' = On(By(NoQuery("delete_transaction", ""), token, user),
                      transaction_id, NoUpdate)
       /\ UNCHANGED <<users, categories, user_sessions, now, inflight, next_id,
                      read_fails, exchanges>>
       /\ IF user.status # 200
          THEN /\ resp' = Error("delete_transaction", user.status, user.detail)
               /\ UNCHANGED transactions
          ELSE IF i = 0
          THEN /\ resp' = NotFound("delete_transaction")
               /\ UNCHANGED transactions
          ELSE /\ transactions' = SubSeq(transactions, 1, i - 1)
                                  \o SubSeq(transactions, i + 1, Len(transactions))
               /\ resp' = Response("delete_transaction", 200,
                                   [message |-> "Transaction deleted successfully"])

get_cash_flow_consuming(token, period) ==
    LET user == get_current_user(token)
        fetched == Find(user.user_id, PeriodStart(period))
    IN /\ transactions' = SelectSeq(transactions, LAMBDA t : t.user_id # user.user_id)
       /\ resp' = Response("get_cash_flow", 200, CashFlowSummary(fetched))
       /\ trace' = By(Trace("get_cash_flow", period, TRUE, fetched, 0), token, user)
       /\ UNCHANGED <<users, categories, user_sessions, now, inflight, next_id,
                      read_fails, exchanges>>

\* GET /analytics/cash-flow
get_cash_flow(token, period) ==
    LET user == get_current_user(token) IN
    /\ UNCHANGED <<users, categories, user_sessions, transactions, now, inflight,
                   next_id, read_fails, exchanges>>
    /\ IF user.status # 200
       THEN /\ resp' = Error("get_cash_flow", user.status, user.detail)
            /\ trace' = By(NoQuery("get_cash_flow", period), token, user)
       ELSE LET found == FindToList(user.user_id, PeriodStart(period))
                fetched == found.docs
            IN /\ trace' = By(Trace("get_cash_flow", period, TRUE, fetched, 0),
                              token, user)
               /\ resp' = IF found.raised THEN Unhandled("get_cash_flow")
                          ELSE Response("get_cash_flow", 200,
                                        CashFlowSummary(fetched))

NoTransactionsNever(fetched) == FALSE

\* if not transactions:
NoTransactions(fetched) == fetched = <<>>

\* GET /analytics/insights, up to the await of chat.send_message
generate_insights(token) ==
    LET user == get_current_user(token) IN
    /\ inflight.state = "idle"
    /\ UNCHANGED <<users, categories, user_sessions, transactions, now, next_id,
                   read_fails, exchanges>>
    /\ IF user.status # 200
       THEN /\ resp' = Error("generate_insights", user.status, user.detail)
            /\ trace' = By(NoQuery("generate_insights", "month"), token, user)
            /\ UNCHANGED inflight
       ELSE LET found == FindToList(user.user_id, MonthStart(now))
                fetched == found.docs
            IN
            IF found.raised
            THEN /\ resp' = Unhandled("generate_insights")
                 /\ trace' = By(Trace("generate_insights", "month", TRUE, fetched, 0),
                                token, user)
                 /\ UNCHANGED inflight
            ELSE IF NoTransactions(fetched)
            THEN /\ resp' = InsightResponse([text |-> "onboarding"])
                 /\ trace' = By(Trace("generate_insights", "month", TRUE, fetched, 0),
                                token, user)
                 /\ UNCHANGED inflight
            ELSE /\ inflight' =
                      [state |-> "pending",
                       total_income |-> SumAmounts(fetched, "income"),
                       total_expenses |-> SumAmounts(fetched, "expense"),
                       category_spending |-> CategoryTotals(fetched),
                       fetched |-> fetched, token |-> token,
                       user_id |-> user.user_id, llm_calls |-> 1]
                 /\ UNCHANGED <<resp, trace>>

FallbackResponseRaises(request) ==
    Error("generate_insights", 500, "Internal Server Error")

\* what the except branch answers for the awaiting request
FallbackResponse(request) ==
    InsightResponse(FallbackInsight(request.total_income, request.total_expenses,
                                    request.category_spending))

\* the trace of the awaiting request once the text generation has ended
Completed(request, llm_result) ==
    [By(Trace("generate_insights", "month", TRUE, request.fetched,
              request.llm_calls), request.token, request)
     EXCEPT !.llm_result = llm_result]

\* chat.send_message returns: a string is returned as the insight; anything
\* InsightResponse rejects raises inside the try block and takes the except branch
LlmReply(text) ==
    /\ inflight.state = "pending"
    /\ resp' = IF text = Malformed THEN FallbackResponse(inflight)
               ELSE InsightResponse([text |-> "generated", content |-> text])
    /\ trace' = Completed(inflight, text)
    /\ inflight' = Idle
    /\ UNCHANGED <<users, categories, user_sessions, transactions, now, next_id,
                   read_fails, exchanges>>

LlmFailRetries ==
    /\ inflight.state = "pending"
    /\ IF inflight.llm_calls < 2
       THEN /\ inflight' = [inflight EXCEPT !.llm_calls = @ + 1]
            /\ UNCHANGED <<resp, trace>>
       ELSE /\ resp' = FallbackResponse(inflight)
            /\ trace' = Completed(inflight, "raised")
            /\ inflight' = Idle
    /\ UNCHANGED <<users, categories, user_sessions, transactions, now, next_id,
                   read_fails, exchanges>>

\* chat.send_message (or building the chat) raises
LlmFail ==
    /\ inflight.state = "pending"
    /\ resp' = FallbackResponse(inflight)
    /\ trace' = Completed(inflight, "raised")
    /\ inflight' = Idle
    /\ UNCHANGED <<users, categories, user_sessions, transactions, now, next_id,
                   read_fails, exchanges>>

\* the text-generation service stops answering; the await has no timeout
LlmHang ==
    /\ inflight.state = "pending"
    /\ inflight' = [inflight EXCEPT !.state = "hung"]
    /\ UNCHANGED <<users, categories, user_sessions, transactions, now, next_id,
                   resp, trace, read_fails, exchanges>>

\* time passes: datetime.now(timezone.utc) is later by `days`
Tick(days) ==
    /\ now' = now + days
    /\ UNCHANGED <<users, categories, user_sessions, transactions, inflight, next_id,
                   resp, trace, read_fails, exchanges>>

\* the store stops answering reads of db.transactions
StoreFails ==
    /\ ~read_fails
    /\ read_fails' = TRUE
    /\ UNCHANGED <<users, categories, user_sessions, transactions, now, inflight,
                   next_id, resp, trace, exchanges>>

\* the store answers again
StoreRecovers ==
    /\ read_fails
    /\ read_fails' = FALSE
    /\ UNCHANGED <<users, categories, user_sessions, transactions, now, inflight,
                   next_id, resp, trace, exchanges>>

----------------------------------------------------------------------------
(* The whole service, one owner *)

Next ==
    \/ \E email \in Emails, token \in Tokens, broker_ok \in BOOLEAN :
          /\ Len(user_sessions) < MaxSessions
          /\ exchange_session(email, token, broker_ok)
    \/ \E token \in RequestTokens : logout(token)
    \/ \E token \in RequestTokens, t \in CreateInputs :
          /\ Len(transactions) < MaxTxns
          /\ create_transaction(token, t.amount, t.category, t.type, t.date)
    \/ \E token \in RequestTokens, period \in Periods : get_cash_flow(token, period)
    \/ \E token \in RequestTokens : generate_insights(token)
    \/ \E text \in GeneratedTexts \cup {Malformed} : LlmReply(text)
    \/ LlmFail
    \/ LlmHang

Spec == Init /\ [][Next]_vars

\* The event loop runs every handler that can run, and a text-generation call
\* that has not hung is answered or fails; a hung call enables no step.
FairSpec ==
    /\ Spec
    /\ WF_vars(Next)
    /\ WF_vars(LlmFail)
    /\ WF_vars(\E text \in GeneratedTexts \cup {Malformed} : LlmReply(text))

----------------------------------------------------------------------------
(* One signed-in owner with many categories.  Labels are only compared for  *)
(* equality by the code, so expenses use them in the order of TopLabels: a  *)
(* new expense takes a label already used or the next unused one.           *)

\* the state after the first successful exchange_session
InitSignedIn ==
    /\ users = <<[user_id |-> 1, email |-> "ann@example.com", created_at |-> Now0]>>
    /\ categories = [i \in 1..9 |->
          [category_id |-> 1 + i, user_id |-> 1,
           name |-> <<"Food & Dining", "Transportation", "Shopping", "Entertainment",
                      "Bills & Utilities", "Healthcare", "Salary", "Business",
                      "Investments">>[i],
           type |-> IF i <= 6 THEN "expense" ELSE "income"]]
    /\ user_sessions = <<[user_id |-> 1, session_token |-> "t1",
                          expires_at |-> Now0 + SessionDays, created_at |-> Now0]>>
    /\ transactions = <<>>
    /\ now = Now0
    /\ inflight = Idle
    /\ next_id = 11
    /\ resp = Response("exchange_session", 200,
                       [email |-> "ann@example.com", session_token |-> "t1"])
    /\ trace = NoQuery("exchange_session", "")
    /\ read_fails = FALSE
    /\ exchanges = <<>>

UsedLabels == Len(CategoryTotals(transactions))

ExpenseInputs(amounts) ==
    [amount : amounts,
     category : {TopLabels[i] : i \in 1..Min(UsedLabels + 1, NumCatsTop)},
     type : {"expense"}, date : {NoDate}]

IncomeInputs(amounts) ==
    [amount : amounts, category : {TopLabels[2]}, type : {"income"}, date : {NoDate}]

NextTop ==
    \/ \E t \in ExpenseInputs({1, 2}) \cup IncomeInputs({5}) :
          /\ Len(transactions) < MaxTxnsTop
          /\ create_transaction("t1", t.amount, t.category, t.type, t.date)
    \/ get_cash_flow("t1", "month")

SpecTop == InitSignedIn /\ [][NextTop]_vars

NextInsight ==
    \/ \E t \in ExpenseInputs({1, 2}) \cup IncomeInputs({5}) :
          /\ Len(transactions) < MaxTxnsInsight
          /\ create_transaction("t1", t.amount, t.category, t.type, t.date)
    \/ generate_insights("t1")
    \/ \E text \in GeneratedTexts \cup {Malformed} : LlmReply(text)
    \/ LlmFail

SpecInsight == InitSignedIn /\ [][NextInsight]_vars

----------------------------------------------------------------------------
(* An owner whose current month already holds as many transactions as one   *)
(* read of the store returns (to_list(1000)), and who records a few more.    *)
----------------------------------------------------------------------------

InitAtCap ==
    /\ users = <<[user_id |-> 1, email |-> "ann@example.com", created_at |-> Now0]>>
    /\ categories = <<>>
    /\ user_sessions = <<[user_id |-> 1, session_token |-> "t1",
                          expires_at |-> Now0 + SessionDays, created_at |-> Now0]>>
    /\ transactions = [i \in 1..FetchCap |->
          [transaction_id |-> 10 + i, user_id |-> 1, amount |-> 7,
           category |-> TopLabels[1], type |-> "expense", date |-> Now0,
           created_at |-> Now0]]
    /\ now = Now0
    /\ inflight = Idle
    /\ next_id = 11 + FetchCap
    /\ resp = NoResponse
    /\ trace = NoQuery("none", "")
    /\ read_fails = FALSE
    /\ exchanges = <<>>

CapInputs ==
    [amount : {7}, category : {TopLabels[1], TopLabels[2]}, type : {"expense"},
     date : {NoDate, LastYear}]
    \cup [amount : {9}, category : {TopLabels[1]}, type : {"income"}, date : {NoDate}]

NextCap ==
    \/ \E t \in CapInputs :
          /\ Len(transactions) < FetchCap + MaxOverCap
          /\ create_transaction("t1", t.amount, t.category, t.type, t.date)
    \/ \E period \in Periods : get_cash_flow("t1", period)

SpecCap == InitAtCap /\ [][NextCap]_vars

----------------------------------------------------------------------------
(* One signed-in owner and a store whose reads fail now and then.           *)
----------------------------------------------------------------------------

MaxTxnsStore == 2

NextStore ==
    \/ \E t \in ExpenseInputs({1, 2}) \cup IncomeInputs({5}) :
          /\ Len(transactions) < MaxTxnsStore
          /\ create_transaction("t1", t.amount, t.category, t.type, t.date)
    \/ \E token \in {"t1", NoToken} : get_cash_flow(token, "month")
    \/ \E token \in {"t1", NoToken} : generate_insights(token)
    \/ \E text \in GeneratedTexts \cup {Malformed} : LlmReply(text)
    \/ LlmFail
    \/ StoreFails
    \/ StoreRecovers

SpecStore == InitSignedIn /\ [][NextStore]_vars

----------------------------------------------------------------------------
(* Two signed-in owners who create, read, update and delete transactions.   *)
----------------------------------------------------------------------------

MaxCreatesCrud == 2

\* the state after exchange_session for ann (t1) and then for bob (t2)
InitTwoOwners ==
    /\ users = <<[user_id |-> 1, email |-> "ann@example.com", created_at |-> Now0],
                 [user_id |-> 11, email |-> "bob@example.com", created_at |-> Now0]>>
    /\ categories = [i \in 1..18 |->
          [category_id |-> IF i <= 9 THEN 1 + i ELSE 2 + i,
           user_id |-> IF i <= 9 THEN 1 ELSE 11,
           name |-> <<"Food & Dining", "Transportation", "Shopping", "Entertainment",
                      "Bills & Utilities", "Healthcare", "Salary", "Business",
                      "Investments">>[((i - 1) % 9) + 1],
           type |-> IF ((i - 1) % 9) + 1 <= 6 THEN "expense" ELSE "income"]]
    /\ user_sessions = <<[user_id |-> 1, session_token |-> "t1",
                          expires_at |-> Now0 + SessionDays, created_at |-> Now0],
                         [user_id |-> 11, session_token |-> "t2",
                          expires_at |-> Now0 + SessionDays, created_at |-> Now0]>>
    /\ transactions = <<>>
    /\ now = Now0
    /\ inflight = Idle
    /\ next_id = 21
    /\ resp = Response("exchange_session", 200,
                       [email |-> "bob@example.com", session_token |-> "t2"])
    /\ trace = NoQuery("exchange_session", "")
    /\ read_fails = FALSE
    /\ exchanges = <<>>

CrudTokens == {"t1", "t2"}

\* the ids create_transaction hands out in this specification, and one more
CrudIds == 21..(21 + MaxCreatesCrud)

CrudUpdates ==
    [amount : {<<>>, <<0>>}, category : {<<>>}, type : {<<>>},
     date : {<<>>, <<LastYear>>}]

NextCrud ==
    \/ \E token \in CrudTokens :
          /\ next_id < 21 + MaxCreatesCrud
          /\ create_transaction(token, 7, TopLabels[1], "expense", NoDate)
    \/ \E token \in CrudTokens, id \in CrudIds : get_transaction(token, id)
    \/ \E token \in CrudTokens, id \in CrudIds, update \in CrudUpdates :
          update_transaction(token, id, update)
    \/ \E token \in CrudTokens, id \in CrudIds : delete_transaction(token, id)
    \/ \E token \in CrudTokens, period \in {"month", "year"} :
          get_cash_flow(token, period)

SpecCrud == InitTwoOwners /\ [][NextCrud]_vars

----------------------------------------------------------------------------
(* Signing in and out, sessions that expire, and every protected endpoint   *)
(* called with and without a valid token.                                    *)
----------------------------------------------------------------------------

MaxSessionsAuth == 1
MaxWritesAuth == 1
MaxElapsed == 8

\* a request carries no token or t1, which is unknown to the store before the
\* sign-in and after the logout
AuthTokens == Tokens \cup {NoToken}

NextAuth ==
    \/ \E email \in Emails, token \in Tokens, broker_ok \in BOOLEAN :
          /\ Len(user_sessions) < MaxSessionsAuth
          /\ SessionIndex(token) = 0
          /\ exchange_session(email, token, broker_ok)
    \/ \E token \in AuthTokens : logout(token)
    \/ \E days \in {SessionDays, SessionDays + 1} :
          /\ now + days <= Now0 + MaxElapsed
          /\ Tick(days)
    \/ \E token \in AuthTokens : get_me(token)
    \/ \E token \in AuthTokens :
          /\ Len(transactions) + Len(categories) < 9 * Len(users) + MaxWritesAuth
          /\ create_transaction(token, 7, TopLabels[1], "expense", NoDate)
    \/ \E token \in AuthTokens : get_transactions(token, "")
    \/ \E token \in AuthTokens : get_transaction(token, 11)
    \/ \E token \in AuthTokens :
          update_transaction(token, 11, [NoUpdate EXCEPT !.amount = <<0>>])
    \/ \E token \in AuthTokens : delete_transaction(token, 11)
    \/ \E token \in AuthTokens : get_cash_flow(token, "month")
    \/ \E token \in AuthTokens : generate_insights(token)
    \/ LlmReply("advice")
    \/ LlmFail
    \/ \E token \in AuthTokens : get_categories(token, "")
    \/ \E token \in AuthTokens :
          /\ Len(transactions) + Len(categories) < 9 * Len(users) + MaxWritesAuth
          /\ create_category(token, TopLabels[1], "expense")

SpecAuth == Init /\ [][NextAuth]_vars

----------------------------------------------------------------------------
(* One signed-in owner who creates and deletes transactions and asks for    *)
(* them, for the summary and for an insight.                                 *)
----------------------------------------------------------------------------

MaxCreatesDelete == 2

\* the ids create_transaction hands out in this specification, and one more
DeleteIds == 11..(11 + MaxCreatesDelete)

NextDelete ==
    \/ \E amount \in {7, 9} :
          /\ next_id < 11 + MaxCreatesDelete
          /\ create_transaction("t1", amount, TopLabels[1], "expense", NoDate)
    \/ \E id \in DeleteIds : delete_transaction("t1", id)
    \/ \E id \in DeleteIds : get_transaction("t1", id)
    \/ get_cash_flow("t1", "month")
    \/ generate_insights("t1")
    \/ LlmFail

SpecDelete == InitSignedIn /\ [][NextDelete]_vars

----------------------------------------------------------------------------
(* Signing in and out with the session tokens the OAuth broker hands out;   *)
(* the broker may answer two exchanges with the same token.                  *)
----------------------------------------------------------------------------

MaxSessionsLogout == 2

LogoutTokens == {"t1", "t2"}
LogoutEmails == {"ann@example.com", "bob@example.com"}

NextLogout ==
    \/ \E email \in LogoutEmails, token \in LogoutTokens, broker_ok \in BOOLEAN :
          /\ Len(user_sessions) < MaxSessionsLogout
          /\ exchange_session(email, token, broker_ok)
    \/ \E token \in LogoutTokens \cup {NoToken} : logout(token)
    \/ \E token \in LogoutTokens \cup {NoToken} : get_me(token)
    \/ \E token \in LogoutTokens \cup {NoToken}, period \in {"month"} :
          get_cash_flow(token, period)

SpecLogout == Init /\ [][NextLogout]_vars

----------------------------------------------------------------------------
(* Session exchanges that overlap: each request runs up to the await of its *)
(* first insert, and the event loop resumes the awaiting requests in any     *)
(* order.                                                                    *)
----------------------------------------------------------------------------

MaxExchanges == 2

NextExchange ==
    \/ \E email \in LogoutEmails, token \in LogoutTokens :
          /\ Len(user_sessions) + Len(exchanges) < MaxExchanges
          /\ exchange_session_find(email, token)
    \/ \E i \in 1..Len(exchanges) : exchange_session_insert(i)
    \/ \E token \in LogoutTokens : get_categories(token, "")

SpecExchange == Init /\ [][NextExchange]_vars

----------------------------------------------------------------------------
(* One signed-in owner whose incomes are each the largest finite float.     *)
----------------------------------------------------------------------------

MaxTxnsOverflow == 3

OverflowInputs ==
    [amount : {FloatMax}, category : {TopLabels[1], TopLabels[2]},
     type : {"income"}, date : {NoDate, LastYear}]

NextOverflow ==
    \/ \E t \in OverflowInputs :
          /\ Len(transactions) < MaxTxnsOverflow
          /\ create_transaction("t1", t.amount, t.category, t.type, t.date)
    \/ get_cash_flow("t1", "month")
    \/ generate_insights("t1")
    \/ LlmFail

SpecOverflow == InitSignedIn /\ [][NextOverflow]_vars

----------------------------------------------------------------------------
(* Properties.  The sums below are written from the statements, over the    *)
(* transactions the store returned to the request (trace.fetched).          *)

\* the sum of the amounts of the transactions of one kind
KindTotal(txs, kind) ==
    LET f[n \in 0..Len(txs)] ==
            IF n = 0 THEN 0
            ELSE f[n - 1] + (IF txs[n].type = kind THEN txs[n].amount ELSE 0)
    IN f[Len(txs)]

\* the sum of the amounts of the expenses carrying one category label
CategoryExpense(txs, cat) ==
    LET f[n \in 0..Len(txs)] ==
            IF n = 0 THEN 0
            ELSE f[n - 1] + (IF txs[n].type = "expense" /\ txs[n].category = cat
                             THEN txs[n].amount ELSE 0)
    IN f[Len(txs)]

\* the category labels that carry at least one expense
ExpenseLabels(txs) ==
    {txs[i].category : i \in {j \in 1..Len(txs) : txs[j].type = "expense"}}

\* the position of the first expense carrying the label
FirstSeen(txs, cat) ==
    CHOOSE i \in 1..Len(txs) :
        /\ txs[i].type = "expense" /\ txs[i].category = cat
        /\ \A j \in 1..(i - 1) : ~(txs[j].type = "expense" /\ txs[j].category = cat)

Position(top, cat) ==
    IF \E i \in 1..Len(top) : top[i].name = cat
    THEN CHOOSE i \in 1..Len(top) : top[i].name = cat
    ELSE 0

IsSummary == resp.op = "get_cash_flow" /\ resp.status = 200
IsInsight == resp.op = "generate_insights" /\ resp.status = 200
FallbackTexts == {"low_savings", "invest", "top_category"}
IsFallback == IsInsight /\ resp.body.insight.text \in FallbackTexts

\* C1: every summary get_cash_flow returns has total_income and total_expenses
\* equal to the sums of the income and the expense amounts of the fetched
\* transactions, and savings equal to their difference.
C1_SavingsIsIncomeMinusExpenses ==
    IsSummary =>
        /\ resp.body.total_income = KindTotal(trace.fetched, "income")
        /\ resp.body.total_expenses = KindTotal(trace.fetched, "expense")
        /\ resp.body.savings = KindTotal(trace.fetched, "income")
                               - KindTotal(trace.fetched, "expense")

C1_Witness ==
    /\ IsSummary
    /\ KindTotal(trace.fetched, "income") > 0
    /\ KindTotal(trace.fetched, "expense") > KindTotal(trace.fetched, "income")
    /\ resp.body.savings < 0

\* C2: whenever the income of the fetched transactions is 0, the summary's
\* savings_rate is 0, and a fallback insight is the low-savings text showing a
\* rate of 0.0, whatever the expenses are.
C2_ZeroIncomeZeroRate ==
    /\ (IsSummary /\ KindTotal(trace.fetched, "income") = 0) =>
          /\ resp.body.savings_rate.den > 0
          /\ resp.body.savings_rate.num = 0
    /\ (IsFallback /\ KindTotal(trace.fetched, "income") = 0) =>
          /\ resp.body.insight.text = "low_savings"
          /\ resp.body.insight.rate = 0

C2_Witness ==
    /\ IsSummary
    /\ KindTotal(trace.fetched, "income") = 0
    /\ KindTotal(trace.fetched, "expense") > 0
    /\ resp.body.savings_rate.num = 0

\* C3: top_categories of a summary has at most 5 entries with distinct
\* labels, in non-increasing order of amount; each entry is a label carrying an
\* expense and its amount is the sum of the expenses with that label, so that
\* no income contributes.
C3_TopCategoriesShape ==
    IsSummary =>
        LET top == resp.body.top_categories
            fetched == trace.fetched
        IN /\ Len(top) <= 5
           /\ \A i \in 1..(Len(top) - 1) : top[i].amount >= top[i + 1].amount
           /\ \A i, j \in 1..Len(top) : top[i].name = top[j].name => i = j
           /\ \A i \in 1..Len(top) :
                 /\ top[i].name \in ExpenseLabels(fetched)
                 /\ top[i].amount = CategoryExpense(fetched, top[i].name)
           /\ Len(top) = Min(5, Cardinality(ExpenseLabels(fetched)))

C3_Witness ==
    /\ IsSummary
    /\ Cardinality(ExpenseLabels(trace.fetched)) = 6
    /\ Len(resp.body.top_categories) = 5
    /\ resp.body.top_categories[1].amount > resp.body.top_categories[5].amount

\* C4: of two labels with equal expense sums, the one whose first expense
\* comes earlier in the fetched sequence is ranked ahead of the other, and it
\* is in top_categories whenever the other is.
C4_TiesKeepFirstSeenOrder ==
    IsSummary =>
        LET top == resp.body.top_categories
            fetched == trace.fetched
        IN \A a, b \in ExpenseLabels(fetched) :
              (/\ CategoryExpense(fetched, a) = CategoryExpense(fetched, b)
               /\ FirstSeen(fetched, a) < FirstSeen(fetched, b)
               /\ Position(top, b) # 0)
              => /\ Position(top, a) # 0
                 /\ Position(top, a) < Position(top, b)

\* six labels, the one cut off ties with the fifth entry, and two entries tie
C4_Witness ==
    /\ IsSummary
    /\ Len(resp.body.top_categories) = 5
    /\ \E c \in ExpenseLabels(trace.fetched) :
          /\ Position(resp.body.top_categories, c) = 0
          /\ CategoryExpense(trace.fetched, c) = resp.body.top_categories[5].amount
    /\ resp.body.top_categories[1].amount > resp.body.top_categories[5].amount
    /\ resp.body.top_categories[4].amount = resp.body.top_categories[5].amount

\* C5: an insight request whose store read returned no transaction answers
\* the onboarding message without having invoked the text generation, and no
\* request awaits the text generation with an empty read.
C5_EmptyMonthNoExternalCall ==
    /\ (trace.op = "generate_insights" /\ trace.queried /\ trace.fetched = <<>>) =>
          /\ IsInsight
          /\ resp.body.insight.text = "onboarding"
          /\ trace.llm_calls = 0
    /\ inflight.state # "idle" => inflight.fetched # <<>>

\* the owner has a transaction, but none in the current month
C5_Witness ==
    /\ trace.op = "generate_insights" /\ trace.queried /\ trace.fetched = <<>>
    /\ resp.body.insight.text = "onboarding"
    /\ transactions # <<>>

\* C6: an insight request whose store read returned a transaction and that
\* has answered, answered 200 with the generated text or a fallback text.
C6_InsightNeverFailsOutward ==
    (trace.op = "generate_insights" /\ trace.queried /\ trace.fetched # <<>>) =>
        /\ IsInsight
        /\ resp.body.insight.text \in FallbackTexts \cup {"generated"}

C6_Witness ==
    /\ trace.op = "generate_insights" /\ trace.fetched # <<>>
    /\ IsFallback

\* the fallback text the statements prescribe for the fetched transactions
ExpectedBranch(txs) ==
    LET income == KindTotal(txs, "income")
        savings == KindTotal(txs, "income") - KindTotal(txs, "expense")
    IN IF income <= 0 THEN "low_savings"
       ELSE IF savings * 100 < 10 * income THEN "low_savings"
       ELSE IF savings * 100 > 30 * income THEN "invest"
       ELSE "top_category"

\* C7: a fallback insight is the low-savings text when the savings rate is
\* below 10 (negative and zero-income rates included), the invest text when it
\* is above 30, and the top-category text from 10 to 30 inclusive; income 10000
\* with expenses 9500 shows 5.0 in the low text, with expenses 6000 shows 40.0
\* in the invest text.
C7_FallbackBranchByRate ==
    /\ IsFallback => resp.body.insight.text = ExpectedBranch(trace.fetched)
    /\ FallbackInsight(10000, 9500, <<[name |-> "Food", amount |-> 9500]>>)
          = [text |-> "low_savings", rate |-> 50]
    /\ FallbackInsight(10000, 6000, <<[name |-> "Food", amount |-> 6000]>>)
          = [text |-> "invest", rate |-> 400]

\* a rate of exactly 10
C7_Witness ==
    /\ IsFallback
    /\ resp.body.insight.text = "top_category"
    /\ KindTotal(trace.fetched, "income") = 10
    /\ KindTotal(trace.fetched, "expense") = 9

\* C8: the top-category text names a label with the largest expense sum, with
\* that sum, and of the labels with the largest sum the one whose first expense
\* comes first; without any expense label the choice is ("expenses", 0).
C8_TopCategoryIsFirstLargest ==
    /\ (IsFallback /\ resp.body.insight.text = "top_category"
        /\ ExpenseLabels(trace.fetched) # {}) =>
          LET fetched == trace.fetched
              name == resp.body.insight.name
          IN /\ name \in ExpenseLabels(fetched)
             /\ resp.body.insight.amount = CategoryExpense(fetched, name)
             /\ \A c \in ExpenseLabels(fetched) :
                   \/ CategoryExpense(fetched, c) < CategoryExpense(fetched, name)
                   \/ /\ CategoryExpense(fetched, c) = CategoryExpense(fetched, name)
                      /\ FirstSeen(fetched, name) <= FirstSeen(fetched, c)
    /\ (IsFallback /\ resp.body.insight.text = "top_category"
        /\ ExpenseLabels(trace.fetched) = {}) =>
          /\ resp.body.insight.name = "expenses"
          /\ resp.body.insight.amount = 0
    /\ TopCategory(<<>>) = [name |-> "expenses", amount |-> 0]

\* two labels tie for the largest sum
C8_Witness ==
    /\ IsFallback
    /\ resp.body.insight.text = "top_category"
    /\ \E c \in ExpenseLabels(trace.fetched) :
          /\ c # resp.body.insight.name
          /\ CategoryExpense(trace.fetched, c) = resp.body.insight.amount

\* C9: a call the text-generation service never answers is given up, and
\* the request answers.
C9_HungCallIsGivenUp == (inflight.state = "hung") ~> (inflight.state = "idle")

\* C10: a cash-flow request whose period is neither "month" nor "year"
\* queries no transaction and returns no summary.
C10_InvalidPeriodRejected ==
    (trace.op = "get_cash_flow" /\ trace.period \notin {"month", "year"}) =>
        /\ ~trace.queried
        /\ resp.status # 200

\* the transactions the store holds for one owner from start_date on
OwnedSince(user_id, start_date) ==
    SelectSeq(transactions, LAMBDA t : t.user_id = user_id /\ t.date >= start_date)

\* a response that says it covers only part of the period
FlaggedPartial == "partial" \in DOMAIN resp.body

\* C11: get_cash_flow never silently aggregates only part of a period: however
\* many transactions the owner has in the period (more than 1000 included), the
\* summary is computed over every one of them or the response is flagged as
\* partial.
C11_NoSilentPartialAggregation ==
    IsSummary =>
        \/ Len(trace.fetched) = Len(OwnedSince(trace.user_id, PeriodStart(trace.period)))
        \/ FlaggedPartial

AnalyticsOps == {"get_cash_flow", "generate_insights"}

\* this step is an aggregation request running up to its answer or, for
\* generate_insights, up to the call of the text generation
AnalyticsStarts ==
    \/ inflight.state = "idle" /\ inflight'.state = "pending"
    \/ /\ inflight' = inflight
       /\ <<resp', trace'>> # <<resp, trace>>
       /\ trace'.op \in AnalyticsOps

\* C12: when the read of the transaction store fails, get_cash_flow and
\* generate_insights propagate the failure: an authenticated request answers
\* 500, never a summary, the onboarding message or a fallback insight, and does
\* not call the text generation; a fallback insight is only ever the answer to
\* a failure of the text-generation call.
C12_StoreFailurePropagates ==
    /\ [][(read_fails /\ AnalyticsStarts
           /\ (inflight' = inflight => get_current_user(trace'.token).status = 200))
          => /\ inflight' = inflight
             /\ resp'.op \in AnalyticsOps
             /\ resp'.status = 500]_vars
    /\ [](IsFallback => trace.llm_result \in {"raised", Malformed})

C12_Witness ==
    /\ read_fails
    /\ resp.op = "generate_insights"
    /\ resp.status = 500
    /\ trace.user_id = 1
    /\ Len(transactions) > 0

\* this step belongs to an aggregation request: it runs one, or it ends or
\* suspends the text-generation call of generate_insights
AnalyticsStep == AnalyticsStarts \/ (inflight.state # "idle" /\ inflight' # inflight)

\* C13: get_cash_flow and generate_insights only read: whatever the request and
\* its outcome (success, rejection, external failure, fallback), the users,
\* sessions, transactions and categories collections are the same after each of
\* its steps as before.
C13_AnalyticsOnlyRead ==
    [][AnalyticsStep => UNCHANGED <<users, categories, user_sessions, transactions>>]_vars

C13_Witness ==
    /\ IsFallback
    /\ trace.llm_result = "raised"
    /\ Len(transactions) = 2
    /\ Len(user_sessions) = 1

\* the first instant of the current month for "month", of the current year for
\* "year"
ClaimedPeriodStart(period) ==
    IF period = "month" THEN now - (now % 30) ELSE now - (now % 360)

\* C14: the transactions get_cash_flow aggregates are exactly the authenticated
\* owner's transactions dated at or after the start of the current month
\* ("month") or year ("year"), none of another user or of an earlier date.
C14_AggregatesExactlyOwnersPeriod ==
    (IsSummary /\ trace.period \in {"month", "year"}) =>
        trace.fetched = OwnedSince(trace.user_id, ClaimedPeriodStart(trace.period))

\* C15: after any sequence of create and update requests every stored
\* transaction has a non-negative amount and a kind that is exactly "income" or
\* "expense" (a request carrying anything else is rejected and stores nothing).
C15_StoredTransactionsValid ==
    \A i \in 1..Len(transactions) :
        /\ transactions[i].amount >= 0
        /\ transactions[i].type \in {"income", "expense"}

ItemOps == {"get_transaction", "update_transaction", "delete_transaction"}

\* this step is a request on one transaction id by a caller whose token
\* authenticates
ItemRequest ==
    /\ <<resp', trace'>> # <<resp, trace>>
    /\ trace'.op \in ItemOps
    /\ get_current_user(trace'.token).status = 200

\* the user the request's token belongs to
Caller == get_current_user(trace'.token).user_id

\* the request names a stored transaction of another user
OnForeign ==
    \E i \in 1..Len(transactions) :
        /\ transactions[i].transaction_id = trace'.transaction_id
        /\ transactions[i].user_id # Caller

\* the request does not return a transaction and changes none
Refused(status, detail) ==
    /\ resp'.status = status
    /\ resp'.body = [detail |-> detail]
    /\ transactions' = transactions

\* no step changes the user_id of a transaction
OwnerKept ==
    \A i \in 1..Len(transactions), j \in 1..Len(transactions') :
        transactions[i].transaction_id = transactions'[j].transaction_id
            => transactions[i].user_id = transactions'[j].user_id

\* the request carries an update body with no non-null field
EmptyUpdate ==
    /\ trace'.op = "update_transaction"
    /\ \A k \in DOMAIN trace'.update : trace'.update[k] = <<>>

\* C16 as stated: get_transaction, update_transaction and delete_transaction by
\* a different authenticated user on a transaction's id answer 404, never
\* return its contents and leave it unchanged; no operation changes a
\* transaction's user_id.
C16_ForeignRequestAnswers404 ==
    [][/\ (ItemRequest /\ OnForeign) => Refused(404, "Transaction not found")
       /\ OwnerKept]_vars

\* C16 as amended: the same, except that update_transaction with no non-null
\* field answers 400 (before it looks the transaction up), also returning no
\* contents and changing nothing.
C16_ForeignRequestRefused ==
    [][/\ (ItemRequest /\ OnForeign) =>
             IF EmptyUpdate THEN Refused(400, "No fields to update")
             ELSE Refused(404, "Transaction not found")
       /\ OwnerKept]_vars

C16_Witness ==
    /\ resp = Error("update_transaction", 404, "Transaction not found")
    /\ trace.token = "t2"
    /\ trace.update.amount = <<0>>
    /\ \E i \in 1..Len(transactions) :
          /\ transactions[i].transaction_id = trace.transaction_id
          /\ transactions[i].user_id = 1
          /\ transactions[i].amount = 7

ProtectedOps ==
    {"get_me", "create_transaction", "get_transactions", "get_transaction",
     "update_transaction", "delete_transaction", "get_cash_flow",
     "generate_insights", "get_categories", "create_category"}

\* no token, a token of no stored session, or a token with a stored session
\* whose expires_at is earlier than now
Rejectable(token) ==
    \/ token = NoToken
    \/ \A i \in 1..Len(user_sessions) : user_sessions[i].session_token # token
    \/ \E i \in 1..Len(user_sessions) :
          /\ user_sessions[i].session_token = token
          /\ user_sessions[i].expires_at < now

\* this step is a request to a protected endpoint running up to its answer
ProtectedRequest ==
    /\ <<resp', trace'>> # <<resp, trace>>
    /\ inflight' = inflight
    /\ trace'.op \in ProtectedOps

\* C17: every protected endpoint answers 401 to a request with no token, with
\* a token of no stored session or with a token whose session has expired, and
\* the rejected request writes nothing to the store (and starts no
\* text-generation call).
C17_BadTokenRejected ==
    [][/\ (ProtectedRequest /\ Rejectable(trace'.token)) =>
             /\ resp'.status = 401
             /\ UNCHANGED <<users, categories, user_sessions, transactions>>
       /\ (inflight.state = "idle" /\ inflight'.state = "pending") =>
             ~Rejectable(inflight'.token)]_vars

C17_Witness ==
    /\ resp = Error("create_transaction", 401, "Session expired")
    /\ trace.token = "t1"
    /\ transactions = <<>>
    /\ \E i \in 1..Len(user_sessions) :
          /\ user_sessions[i].session_token = "t1"
          /\ user_sessions[i].expires_at + 1 = now

\* C18: within one generate_insights request the text generation is invoked at
\* most once; the rule-based fallback is the answer only after that one
\* invocation failed (it raised, or returned what is not a text), and the text
\* of a successful invocation is returned unchanged.
C18_SingleCallThenFallback ==
    /\ inflight.llm_calls <= 1
    /\ inflight.state # "idle" => inflight.llm_calls = 1
    /\ IsInsight => trace.llm_calls <= 1
    /\ IsFallback =>
          /\ trace.llm_calls = 1
          /\ trace.llm_result \in {"raised", Malformed}
    /\ (IsInsight /\ resp.body.insight.text = "generated") =>
          /\ trace.llm_calls = 1
          /\ trace.llm_result \in GeneratedTexts
          /\ resp.body.insight.content = trace.llm_result

C18_Witness ==
    /\ IsFallback
    /\ resp.body.insight.text = "low_savings"
    /\ trace.llm_calls = 1
    /\ trace.llm_result = Malformed

\* C19: for the same fetched month transactions generate_insights computes the
\* values of get_cash_flow(period=month): its totals are the summary's, the
\* rate its fallback shows is the summary's savings_rate, and with a non-empty
\* expense mapping the category of the fallback's middle branch (name and
\* amount) is the first entry of the summary's top_categories, also when
\* several categories tie for the largest sum.
C19_InsightAgreesWithSummary ==
    /\ inflight.state # "idle" =>
          LET summary == CashFlowSummary(inflight.fetched) IN
          /\ inflight.total_income = summary.total_income
          /\ inflight.total_expenses = summary.total_expenses
    /\ IsFallback =>
          LET summary == CashFlowSummary(trace.fetched)
              insight == resp.body.insight
          IN /\ insight.text \in {"low_savings", "invest"} =>
                   insight.rate = Format1(summary.savings_rate)
             /\ (insight.text = "top_category" /\ summary.top_categories # <<>>) =>
                   /\ insight.name = summary.top_categories[1].name
                   /\ insight.amount = summary.top_categories[1].amount

\* the middle branch with two labels tied for the largest sum
C19_Witness ==
    /\ IsFallback
    /\ resp.body.insight.text = "top_category"
    /\ LET top == CashFlowSummary(trace.fetched).top_categories IN
          /\ Len(top) = 2
          /\ top[1].amount = top[2].amount
          /\ resp.body.insight.name = TopLabels[1]

\* this step is an update_transaction request by a caller whose token
\* authenticates
UpdateRequest ==
    /\ <<resp', trace', transactions'>> # <<resp, trace, transactions>>
    /\ trace'.op = "update_transaction"
    /\ get_current_user(trace'.token).status = 200

\* the fields the request supplies with a non-null value
Supplied == {k \in DOMAIN trace'.update : trace'.update[k] # <<>>}

\* the request names a stored transaction of the caller
OnOwn ==
    \E i \in 1..Len(transactions) :
        /\ transactions[i].transaction_id = trace'.transaction_id
        /\ transactions[i].user_id = Caller

\* the named transaction takes the supplied values and keeps its other fields;
\* every other transaction stays as it is
ExactlySuppliedChanged ==
    /\ Len(transactions') = Len(transactions)
    /\ \A i \in 1..Len(transactions) :
          IF transactions[i].transaction_id = trace'.transaction_id
          THEN /\ DOMAIN transactions'[i] = DOMAIN transactions[i]
               /\ \A k \in DOMAIN transactions[i] :
                     transactions'[i][k] = IF k \in Supplied THEN trace'.update[k][1]
                                           ELSE transactions[i][k]
          ELSE transactions'[i] = transactions[i]

\* C20 as stated: update_transaction on the caller's own transaction changes
\* exactly the fields supplied with a non-null value and nothing else in the
\* store; a request with no non-null field answers 400 and a request for an id
\* the caller does not own answers 404, both leaving the store unchanged.
C20_UpdateExactOr400Or404 ==
    [][UpdateRequest =>
          /\ (OnOwn /\ Supplied # {}) => ExactlySuppliedChanged
          /\ Supplied = {} => (resp'.status = 400 /\ transactions' = transactions)
          /\ ~OnOwn => (resp'.status = 404 /\ transactions' = transactions)]_vars

\* C20 as amended: the same, with 404 for an id the caller does not own when
\* the request supplies at least one non-null field (with none it answers 400).
C20_UpdateExactElse400Then404 ==
    [][UpdateRequest =>
          /\ (OnOwn /\ Supplied # {}) =>
                (resp'.status = 200 /\ ExactlySuppliedChanged)
          /\ Supplied = {} => (resp'.status = 400 /\ transactions' = transactions)
          /\ (~OnOwn /\ Supplied # {}) =>
                (resp'.status = 404 /\ transactions' = transactions)]_vars

\* one of the caller's two transactions was given a new amount and kept its date
C20_Witness ==
    /\ resp.op = "update_transaction"
    /\ resp.status = 200
    /\ trace.update = [NoUpdate EXCEPT !.amount = <<0>>]
    /\ resp.body.amount = 0
    /\ resp.body.date = Now0
    /\ \E i \in 1..Len(transactions) :
          /\ transactions[i].user_id = resp.body.user_id
          /\ transactions[i].transaction_id # resp.body.transaction_id
          /\ transactions[i].amount = 7

\* the ids of the stored transactions
StoredIds(txs) == {txs[i].transaction_id : i \in 1..Len(txs)}

\* this step is a delete_transaction that answered 200
DeleteSucceeds ==
    /\ <<resp', trace', transactions'>> # <<resp, trace, transactions>>
    /\ trace'.op = "delete_transaction"
    /\ resp'.status = 200

\* txs without the transaction of the given id, the others as they were
Without(txs, id) == SelectSeq(txs, LAMBDA t : t.transaction_id # id)

\* C21: a successful delete_transaction removes the transaction of its id and
\* no other; from then on the id stays absent, get_transaction and
\* delete_transaction on it answer 404 and change nothing (as for any id that
\* does not exist), and every later get_cash_flow and generate_insights
\* aggregates stored transactions only.
C21_DeletedStaysGone ==
    [][/\ DeleteSucceeds =>
             /\ trace'.transaction_id \in StoredIds(transactions)
             /\ transactions' = Without(transactions, trace'.transaction_id)
       /\ \A id \in DeleteIds :
             (id < next_id /\ id \notin StoredIds(transactions)) =>
                 id \notin StoredIds(transactions')
       /\ (ItemRequest /\ trace'.op \in {"get_transaction", "delete_transaction"}
           /\ trace'.transaction_id \notin StoredIds(transactions)) =>
             Refused(404, "Transaction not found")
       /\ (AnalyticsStarts /\ inflight' = inflight /\ resp'.status = 200) =>
             \A j \in 1..Len(trace'.fetched) :
                 trace'.fetched[j].transaction_id \in StoredIds(transactions)
       /\ (inflight.state = "idle" /\ inflight'.state = "pending") =>
             \A j \in 1..Len(inflight'.fetched) :
                 inflight'.fetched[j].transaction_id \in StoredIds(transactions)]_vars

\* the first of two transactions was deleted and then asked for
C21_Witness ==
    /\ resp = Error("get_transaction", 404, "Transaction not found")
    /\ trace.transaction_id = 11
    /\ next_id = 13
    /\ StoredIds(transactions) = {12}

\* the session documents of one token
SessionsOf(sessions, token) == SelectSeq(sessions, LAMBDA s : s.session_token = token)

\* C22: once a logout request carrying token T has returned, a request
\* authenticated with T is rejected with 401, whatever exchanges and logouts
\* came before; the logout leaves the sessions of every other token unchanged.
C22_LoggedOutTokenRejected ==
    [][\A T \in LogoutTokens :
          logout(T) =>
             /\ (get_current_user(T).status = 401)'
             /\ \A U \in LogoutTokens \ {T} :
                   SessionsOf(user_sessions', U) = SessionsOf(user_sessions, U)]_vars

\* the number of the entries of s that satisfy Test
Count(s, Test(_)) == Len(SelectSeq(s, Test))

DefaultExpenseNames ==
    {"Food & Dining", "Transportation", "Shopping", "Entertainment",
     "Bills & Utilities", "Healthcare"}

DefaultIncomeNames == {"Salary", "Business", "Investments"}

\* C23: after any interleaving of exchange_session requests there is at most
\* one user record per email, and each user has exactly one set of the nine
\* default categories, six of type expense and three of type income.
C23_OneUserPerEmail ==
    /\ \A i \in 1..Len(users), j \in 1..Len(users) :
          users[i].email = users[j].email => i = j
    /\ \A i \in 1..Len(users) :
          /\ \A name \in DefaultExpenseNames :
                Count(categories, LAMBDA c : c.user_id = users[i].user_id
                                             /\ c.name = name /\ c.type = "expense") = 1
          /\ \A name \in DefaultIncomeNames :
                Count(categories, LAMBDA c : c.user_id = users[i].user_id
                                             /\ c.name = name /\ c.type = "income") = 1

\* C24: in the fallback of generate_insights the placeholder is never used:
\* whenever the middle branch is taken, the fetched transactions hold an
\* expense, so the expense category mapping is not empty.
C24_PlaceholderNeverUsed ==
    (IsFallback /\ resp.body.insight.text = "top_category") =>
        ExpenseLabels(trace.fetched) # {}

====
